---- MODULE Spec2Model ----
(***************************************************************************)
(* Model of src/main.rs: a three-instruction virtual machine (nop / acc /  *)
(* jmp), its loop-detecting execute(), the single-instruction flip         *)
(* flip_after(), and the repair search that main() drives.                 *)
(*                                                                         *)
(* Programs are sequences of records [op, arg].  Rust indices are 0-based, *)
(* TLA+ sequences are 1-based: At(p, i) is p[i] of the source.             *)
(***************************************************************************)
EXTENDS Integers, Sequences, FiniteSets, TLC

(* ------------------------------ bounds --------------------------------- *)
\* longest program drawn in Init (the example program is added on top)
MaxLen == 3
\* operands are drawn from -MaxArg..MaxArg
MaxArg == 2

(* ------------------------- program model ------------------------------- *)
\* usize is a machine word; `as usize` on a negative i64 wraps modulo 2^w.
\* The word is kept at 30 bits (the model checker's integers are 32 bits
\* wide); the only thing execute() does with a wrapped value is compare it
\* with program.len(), and 2^30 - MaxArg exceeds every length used here.
UsizeBits == 30
UsizeModulus == 2 ^ UsizeBits

Opcodes == {"Nop", "Acc", "Jmp"}
Args == (0 - MaxArg)..MaxArg
Instruction == [op : Opcodes, arg : Args]

Nop(a) == [op |-> "Nop", arg |-> a]
Acc(a) == [op |-> "Acc", arg |-> a]
Jmp(a) == [op |-> "Jmp", arg |-> a]

\* tests::TEST_INSTRUCTIONS
TEST_INSTRUCTIONS ==
    << Nop(0), Acc(1), Jmp(4), Acc(3), Jmp(-3), Acc(-99), Acc(1), Jmp(-4), Acc(6) >>

RECURSIVE SeqsUpTo(_, _)
SeqsUpTo(S, k) ==
    IF k = 0 THEN { <<>> }
    ELSE LET shorter == SeqsUpTo(S, k - 1)
         IN  shorter \cup { Append(s, x) : s \in { t \in shorter : Len(t) = k - 1 }, x \in S }

\* the programs the input collaborator may hand over
Programs == SeqsUpTo(Instruction, MaxLen) \cup { TEST_INSTRUCTIONS }

\* program.get(i) / program[i], 0-based
At(p, i) == p[i + 1]

(* ---------------------------- flip_after ------------------------------- *)
\* `Instruction::Nop(_) | Instruction::Jmp(_)`: the arms that flip
Flippable(instruction) == instruction.op \in {"Nop", "Jmp"}

\* mutant: the flipped instruction loses its operand
Flipped_DropsOperand(instruction) ==
    CASE instruction.op = "Nop" -> Jmp(0)
      [] instruction.op = "Jmp" -> Nop(0)

\* mutant: both arms build a Jmp
Flipped_AlwaysJmp(instruction) ==
    CASE instruction.op = "Nop" -> Jmp(instruction.arg)
      [] instruction.op = "Jmp" -> Jmp(instruction.arg)

\* the two flipping arms: Nop(n) => Jmp(*n), Jmp(n) => Nop(*n)
Flipped(instruction) ==
    CASE instruction.op = "Nop" -> Jmp(instruction.arg)
      [] instruction.op = "Jmp" -> Nop(instruction.arg)

\* what a call returns when `.expect("instruction out of range")` panics
InstructionOutOfRange == << 0 - 1, << >> >>

\* mutant: the range includes its upper end (`n..=new_program.len()`)
ForRange_Inclusive(i, len) == i <= len

\* `for i in n..new_program.len()`: i is in the range
ForRange(i, len) == i < len

\* the body of the for loop, from index i on; new_program.get(i) is None
\* outside 0..len-1 and expect() then panics
RECURSIVE flip_loop(_, _)
flip_loop(copy, i) ==
    IF ~ForRange(i, Len(copy))
    THEN << Len(copy), copy >>
    ELSE IF i \notin 0..(Len(copy) - 1)
         THEN InstructionOutOfRange
         ELSE IF Flippable(At(copy, i))
              THEN << i + 1, [copy EXCEPT ![i + 1] = Flipped(@)] >>
              ELSE flip_loop(copy, i + 1)

\* mutant: the scan ignores n and starts at index 0
flip_after_FromStart(current, k) == flip_loop(current, 0)

\* fn flip_after(current: &[Instruction], n: usize) -> (usize, Program)
flip_after(current, k) == flip_loop(current, k)

(* ------------------------------ state ---------------------------------- *)
VARIABLES
    program,          \* main: `program`
    n,                \* main: `n`, the flip cursor
    new_program,      \* main: `new_program`
    result,           \* main: `result`
    new_result,       \* main: `new_result`
    program_counter,  \* Computer.program_counter
    accumulator,      \* Computer.accumulator
    executed,         \* execute: `executed`, the HashSet of visited indices
    exec_program,     \* execute: its parameter `program`, the slice being run
    at,               \* position in main / execute
    caller,           \* line of main whose execute() call is (or was last) running
    stdout,           \* numbers printed by println!
    panic,            \* message of the panic that ended the run, or "none"
    visited,          \* history: indices in the order execute() ran them
    tried,            \* history: flipped index of every candidate that was executed
    flip_from,        \* flip_after study: the start index handed in
    flip_back         \* flip_after study: result of flipping the result again

vars == << program, n, new_program, result, new_result, program_counter,
           accumulator, executed, exec_program, at, caller, stdout, panic, visited, tried,
           flip_from, flip_back >>

NoResult == [arm |-> "None", val |-> 0]
Ok(v) == [arm |-> "Ok", val |-> v]
Err(v) == [arm |-> "Err", val |-> v]

NoFlip == 0 - 1

(* --------------------------- Computer::execute ------------------------- *)
\* `while self.program_counter < program.len()`
WhileCond(pc, prog) == pc < Len(prog)

\* mutant: the lookup is off by one
AlreadyExecuted_OffByOne(ex, pc) == (pc + 1) \in ex

\* `executed.contains(&self.program_counter)`
AlreadyExecuted(ex, pc) == pc \in ex

\* `(... as i64 + *n) as usize`
ToUsize(i) == i % UsizeModulus

\* mutant: the Acc arm does not advance the counter
StepPC_AccStays(pc, instruction) ==
    CASE instruction.op = "Nop" -> pc + 1
      [] instruction.op = "Acc" -> pc
      [] instruction.op = "Jmp" -> ToUsize(pc + instruction.arg)

\* the match on the instruction: new program counter
StepPC(pc, instruction) ==
    CASE instruction.op = "Nop" -> pc + 1
      [] instruction.op = "Acc" -> pc + 1
      [] instruction.op = "Jmp" -> ToUsize(pc + instruction.arg)

\* mutant: the Jmp arm adds its operand to the accumulator
StepAcc_JmpAdds(acc, instruction) ==
    IF instruction.op \in {"Acc", "Jmp"} THEN acc + instruction.arg ELSE acc

\* mutant: the Nop arm adds its operand too
StepAcc_NopAdds(acc, instruction) ==
    IF instruction.op \in {"Acc", "Nop"} THEN acc + instruction.arg ELSE acc

\* the match on the instruction: new accumulator (i64; the operands and
\* lengths used here stay far from its limits)
StepAcc(acc, instruction) ==
    IF instruction.op = "Acc" THEN acc + instruction.arg ELSE acc

\* mutant: the accumulator is not reset on entry
ExecuteCall_KeepsAccumulator(line, prog) ==
    /\ exec_program' = prog
    /\ program_counter' = 0
    /\ accumulator' = accumulator
    /\ executed' = {}
    /\ visited' = << >>
    /\ caller' = line
    /\ at' = "exec"

\* entry of execute(): the engine's fields and the visited set are reset
ExecuteCall(line, prog) ==
    /\ exec_program' = prog
    /\ program_counter' = 0
    /\ accumulator' = 0
    /\ executed' = {}
    /\ visited' = << >>
    /\ caller' = line
    /\ at' = "exec"

\* `return Err(..)` / `Ok(..)`: the value lands in the caller's variable
\* (callers "warmup" and "engine" are the calls of the engine-reuse study)
ExecuteReturn(r) ==
    /\ CASE caller = "104" ->
              /\ result' = r
              /\ new_result' = new_result
              /\ at' = "main_105"
         [] caller = "warmup" ->
              /\ result' = r
              /\ new_result' = new_result
              /\ at' = "engine_idle"
         [] caller = "engine" ->
              /\ new_result' = r
              /\ result' = result
              /\ at' = "engine_done"
         [] OTHER ->
              /\ new_result' = r
              /\ result' = result
              /\ at' = "main_113"
    /\ UNCHANGED << program, n, new_program, program_counter, accumulator,
                    executed, exec_program, caller, stdout, panic, visited,
                    tried, flip_from, flip_back >>

\* loop iteration that finds the counter in `executed`: return Err(accumulator)
ExecuteLoopDetected ==
    /\ at = "exec"
    /\ WhileCond(program_counter, exec_program)
    /\ AlreadyExecuted(executed, program_counter)
    /\ ExecuteReturn(Err(accumulator))

\* mutant: the index is not inserted into `executed`
ExecuteStep_NoInsert ==
    /\ at = "exec"
    /\ WhileCond(program_counter, exec_program)
    /\ ~AlreadyExecuted(executed, program_counter)
    /\ executed' = executed
    /\ visited' = Append(visited, program_counter)
    /\ IF program_counter \in 0..(Len(exec_program) - 1)
       THEN /\ program_counter' = StepPC(program_counter, At(exec_program, program_counter))
            /\ accumulator' = StepAcc(accumulator, At(exec_program, program_counter))
            /\ UNCHANGED << at, panic >>
       ELSE \* program.get(..) is None: expect() panics
            /\ panic' = "instruction out of range"
            /\ at' = "panicked"
            /\ UNCHANGED << program_counter, accumulator >>
    /\ UNCHANGED << program, n, new_program, result, new_result, caller,
                    exec_program, stdout, tried, flip_from, flip_back >>

\* loop iteration that runs one instruction
ExecuteStep ==
    /\ at = "exec"
    /\ WhileCond(program_counter, exec_program)
    /\ ~AlreadyExecuted(executed, program_counter)
    /\ executed' = executed \cup { program_counter }
    /\ visited' = Append(visited, program_counter)
    /\ IF program_counter \in 0..(Len(exec_program) - 1)
       THEN /\ program_counter' = StepPC(program_counter, At(exec_program, program_counter))
            /\ accumulator' = StepAcc(accumulator, At(exec_program, program_counter))
            /\ UNCHANGED << at, panic >>
       ELSE \* program.get(..) is None: expect() panics
            /\ panic' = "instruction out of range"
            /\ at' = "panicked"
            /\ UNCHANGED << program_counter, accumulator >>
    /\ UNCHANGED << program, n, new_program, result, new_result, caller,
                    exec_program, stdout, tried, flip_from, flip_back >>

\* the while condition fails: Ok(accumulator)
ExecuteExit ==
    /\ at = "exec"
    /\ ~WhileCond(program_counter, exec_program)
    /\ ExecuteReturn(Ok(accumulator))

(* -------------------------------- main --------------------------------- *)
\* index flipped by a flip_after(base, _) call that returned <<cursor, flipped>>
FlippedIndex(base, cursor, flipped) ==
    IF flipped = base THEN NoFlip ELSE cursor - 1

\* mutant: the exhaustion test fires one index early
Exhausted_OneEarly(cursor, prog) == cursor + 1 >= Len(prog)

\* `if n >= new_program.len()`
Exhausted(cursor, prog) == cursor >= Len(prog)

\* line 104: computer.execute(&program)
MainExecuteOriginal ==
    /\ at = "main_104"
    /\ ExecuteCall("104", program)
    /\ UNCHANGED << program, n, new_program, result, new_result, stdout,
                    panic, tried, flip_from, flip_back >>

\* mutant: the else branch does not panic and the search starts anyway
MainCheckOriginal_NoPanic ==
    /\ at = "main_105"
    /\ IF result.arm = "Err"
       THEN /\ stdout' = Append(stdout, result.val)
            /\ at' = "main_111"
            /\ panic' = panic
       ELSE /\ panic' = panic
            /\ at' = "main_111"
            /\ stdout' = stdout
    /\ UNCHANGED << program, n, new_program, result, new_result,
                    program_counter, accumulator, executed, exec_program,
                    caller, visited, tried, flip_from, flip_back >>

\* lines 105-109: report the loop, or panic when the original returned Ok
MainCheckOriginal ==
    /\ at = "main_105"
    /\ IF result.arm = "Err"
       THEN /\ stdout' = Append(stdout, result.val)
            /\ at' = "main_111"
            /\ panic' = panic
       ELSE /\ panic' = "returned OK"
            /\ at' = "panicked"
            /\ stdout' = stdout
    /\ UNCHANGED << program, n, new_program, result, new_result,
                    program_counter, accumulator, executed, exec_program,
                    caller, visited, tried, flip_from, flip_back >>

\* `.expect("instruction out of range")` inside flip_after panics: main aborts
FlipAborts ==
    /\ panic' = "instruction out of range"
    /\ at' = "panicked"
    /\ UNCHANGED << n, new_program, program_counter, accumulator, executed,
                    exec_program, visited, caller, tried >>

\* lines 111-112 once flip_after has returned `flipped`
FirstCandidate(flipped) ==
    IF flipped = InstructionOutOfRange
    THEN FlipAborts
    ELSE /\ n' = flipped[1]
         /\ new_program' = flipped[2]
         /\ tried' = Append(tried, FlippedIndex(program, flipped[1], flipped[2]))
         /\ ExecuteCall("112", flipped[2])
         /\ panic' = panic

\* lines 115-120 once flip_after has returned `flipped`
LoopBody(flipped) ==
    IF flipped = InstructionOutOfRange
    THEN FlipAborts
    ELSE /\ n' = flipped[1]
         /\ new_program' = flipped[2]
         /\ IF Exhausted(flipped[1], flipped[2])
            THEN /\ panic' = "cannot find valid program"
                 /\ at' = "panicked"
                 /\ UNCHANGED << program_counter, accumulator, executed,
                                 exec_program, visited, caller, tried >>
            ELSE /\ tried' = Append(tried, FlippedIndex(program, flipped[1], flipped[2]))
                 /\ ExecuteCall("120", flipped[2])
                 /\ panic' = panic

\* mutant: the first candidate goes through the exhaustion test too
MainFirstCandidate_TestsCursor ==
    /\ at = "main_111"
    /\ LoopBody(flip_after(program, 0))
    /\ UNCHANGED << program, result, new_result, stdout, flip_from, flip_back >>

\* lines 111-112: first candidate, executed without any check of n
MainFirstCandidate ==
    /\ at = "main_111"
    /\ FirstCandidate(flip_after(program, 0))
    /\ UNCHANGED << program, result, new_result, stdout, flip_from, flip_back >>

\* mutant: every pass scans from index 0 again
MainLoopBody_FromStart ==
    /\ at = "main_113"
    /\ new_result.arm = "Err"
    /\ LoopBody(flip_after(program, 0))
    /\ UNCHANGED << program, result, new_result, stdout, flip_from, flip_back >>

\* mutant: the scan restarts at the index flipped last
MainLoopBody_RescansFlipped ==
    /\ at = "main_113"
    /\ new_result.arm = "Err"
    /\ LoopBody(flip_after(program, n - 1))
    /\ UNCHANGED << program, result, new_result, stdout, flip_from, flip_back >>

\* mutant: the next candidate is flipped from the previous candidate
MainLoopBody_Cumulative ==
    /\ at = "main_113"
    /\ new_result.arm = "Err"
    /\ LoopBody(flip_after(new_program, n))
    /\ UNCHANGED << program, result, new_result, stdout, flip_from, flip_back >>

\* lines 113-121: one pass of `while new_result.is_err()`
MainLoopBody ==
    /\ at = "main_113"
    /\ new_result.arm = "Err"
    /\ LoopBody(flip_after(program, n))
    /\ UNCHANGED << program, result, new_result, stdout, flip_from, flip_back >>

\* lines 122-123: the loop ended, new_result is Ok
MainSuccess ==
    /\ at = "main_113"
    /\ new_result.arm # "Err"
    /\ stdout' = Append(stdout, new_result.val)
    /\ at' = "done"
    /\ UNCHANGED << program, n, new_program, result, new_result,
                    program_counter, accumulator, executed, exec_program,
                    caller, panic, visited, tried, flip_from, flip_back >>

\* state after `Computer::new()` with the program read, before line 104
Init ==
    /\ program \in Programs
    /\ n = 0
    /\ new_program = << >>
    /\ result = NoResult
    /\ new_result = NoResult
    /\ program_counter = 0
    /\ accumulator = 0
    /\ executed = {}
    /\ exec_program = << >>
    /\ at = "main_104"
    /\ caller = "none"
    /\ stdout = << >>
    /\ panic = "none"
    /\ visited = << >>
    /\ tried = << >>
    /\ flip_from = 0
    /\ flip_back = << 0, << >> >>

Next ==
    \/ MainExecuteOriginal
    \/ ExecuteLoopDetected
    \/ ExecuteStep
    \/ ExecuteExit
    \/ MainCheckOriginal
    \/ MainFirstCandidate
    \/ MainLoopBody
    \/ MainSuccess

Spec == Init /\ [][Next]_vars

(* ---------------- flip_after applied to arbitrary inputs --------------- *)
\* start indices handed to flip_after: every index, the length, and beyond
StartIndices == 0..(MaxLen + 1)

FlipInit ==
    /\ program \in Programs
    /\ flip_from \in StartIndices
    /\ n = 0
    /\ new_program = << >>
    /\ result = NoResult
    /\ new_result = NoResult
    /\ program_counter = 0
    /\ accumulator = 0
    /\ executed = {}
    /\ exec_program = << >>
    /\ at = "flip_input"
    /\ caller = "none"
    /\ stdout = << >>
    /\ panic = "none"
    /\ visited = << >>
    /\ tried = << >>
    /\ flip_back = << 0, << >> >>

\* (n, new_program) = flip_after(&program, flip_from)
FlipOnce ==
    /\ at = "flip_input"
    /\ LET flipped == flip_after(program, flip_from)
       IN  IF flipped = InstructionOutOfRange
           THEN FlipAborts
           ELSE /\ n' = flipped[1]
                /\ new_program' = flipped[2]
                /\ at' = "flip_once"
                /\ UNCHANGED << program_counter, accumulator, executed,
                                exec_program, caller, panic, visited, tried >>
    /\ UNCHANGED << program, result, new_result, stdout, flip_from, flip_back >>

\* when an instruction was flipped at n - 1: flip_after(&new_program, n - 1)
FlipTwice ==
    /\ at = "flip_once"
    /\ new_program # program
    /\ LET back == flip_after(new_program, n - 1)
       IN  IF back = InstructionOutOfRange
           THEN FlipAborts /\ flip_back' = flip_back
           ELSE /\ flip_back' = back
                /\ at' = "flip_twice"
                /\ UNCHANGED << n, new_program, program_counter, accumulator,
                                executed, exec_program, caller, panic, visited,
                                tried >>
    /\ UNCHANGED << program, result, new_result, stdout, flip_from >>

FlipNext ==
    \/ FlipOnce
    \/ FlipTwice

SpecFlip == FlipInit /\ [][FlipNext]_vars

(* ------------- one engine reused for several execute() calls ----------- *)
\* programs of the earlier calls: the empty program and every single
\* instruction (Ok and Err outcomes, counters and accumulators left non-zero)
WarmupPrograms == SeqsUpTo(Instruction, 1)

\* programs of the call under study
EnginePrograms == SeqsUpTo(Instruction, MaxLen - 1) \cup { TEST_INSTRUCTIONS }

\* state after `Computer::new()`
EngineInit ==
    /\ program = << >>
    /\ n = 0
    /\ new_program = << >>
    /\ result = NoResult
    /\ new_result = NoResult
    /\ program_counter = 0
    /\ accumulator = 0
    /\ executed = {}
    /\ exec_program = << >>
    /\ at = "engine_idle"
    /\ caller = "none"
    /\ stdout = << >>
    /\ panic = "none"
    /\ visited = << >>
    /\ tried = << >>
    /\ flip_from = 0
    /\ flip_back = << 0, << >> >>

\* an earlier computer.execute(&p) on the same engine
EngineWarmup ==
    /\ at = "engine_idle"
    /\ \E p \in WarmupPrograms : ExecuteCall("warmup", p)
    /\ UNCHANGED << program, n, new_program, result, new_result, stdout,
                    panic, tried, flip_from, flip_back >>

\* computer.execute(&p) on the engine as the earlier calls left it
EngineExecute ==
    /\ at = "engine_idle"
    /\ \E p \in EnginePrograms : ExecuteCall("engine", p)
    /\ UNCHANGED << program, n, new_program, result, new_result, stdout,
                    panic, tried, flip_from, flip_back >>

EngineNext ==
    \/ EngineWarmup
    \/ EngineExecute
    \/ ExecuteLoopDetected
    \/ ExecuteStep
    \/ ExecuteExit

SpecEngine == EngineInit /\ [][EngineNext]_vars

(* ===================== properties of the program ====================== *)
\* the flippable indices of p, 0-based
FlippableIndices(p) == { i \in 0..(Len(p) - 1) : Flippable(At(p, i)) }

\* p with the instruction at index i flipped (single-flip variant)
FlipAt(p, i) == [p EXCEPT ![i + 1] = Flipped(@)]

Min(S) == CHOOSE x \in S : \A y \in S : x <= y

Range(s) == { s[j] : j \in 1..Len(s) }

NoDuplicates(s) == \A j, k \in 1..Len(s) : s[j] = s[k] => j = k

\* sum of the Accumulate operands of p at the indices listed in idx
RECURSIVE SumAccAt(_, _)
SumAccAt(p, idx) ==
    IF idx = << >> THEN 0
    ELSE (IF At(p, Head(idx)).op = "Acc" THEN At(p, Head(idx)).arg ELSE 0)
         + SumAccAt(p, Tail(idx))

\* sum of the operands of every Accumulate instruction of p
RECURSIVE SumAcc(_)
SumAcc(p) ==
    IF p = << >> THEN 0
    ELSE (IF Head(p).op = "Acc" THEN Head(p).arg ELSE 0) + SumAcc(Tail(p))

\* execute() as a function of the program: its arm, value and final counter
RECURSIVE RunFrom(_, _, _, _)
RunFrom(prog, pc, acc, seen) ==
    IF ~WhileCond(pc, prog) THEN [arm |-> "Ok", val |-> acc, pc |-> pc]
    ELSE IF AlreadyExecuted(seen, pc) THEN [arm |-> "Err", val |-> acc, pc |-> pc]
    ELSE RunFrom(prog, StepPC(pc, At(prog, pc)), StepAcc(acc, At(prog, pc)),
                 seen \cup { pc })

Run(prog) == RunFrom(prog, 0, 0, {})

\* clean halt: the counter ends exactly one past the last instruction
HaltsCleanly(prog) == Run(prog).arm = "Ok" /\ Run(prog).pc = Len(prog)

\* an execute() call has returned and no later call has started
Returned == caller # "none" /\ at # "exec"

\* what that call returned
LastReturn == IF caller \in {"104", "warmup"} THEN result ELSE new_result

(* C1: execute fails exactly when the counter reaches an index already run
   in this call, at the first such revisit (no index is ever run twice),
   and the failure carries the sum accumulated by the instructions run so
   far; on the example program the indices run are 0,1,2,6,7,3,4, the
   revisited index is 1 and the outcome is Err(5). *)
C1_LoopDetectedAtFirstRevisit ==
    /\ caller # "none" =>
          /\ NoDuplicates(visited)
          /\ Range(visited) = executed
    /\ Returned =>
          /\ (LastReturn.arm = "Err") <=> (program_counter \in executed)
          /\ LastReturn.arm = "Err" =>
                LastReturn.val = SumAccAt(exec_program, visited)
    /\ (Returned /\ caller = "104" /\ program = TEST_INSTRUCTIONS) =>
          /\ visited = << 0, 1, 2, 6, 7, 3, 4 >>
          /\ program_counter = 1
          /\ result = Err(5)

C1_Witness ==
    /\ at = "main_105"
    /\ program = TEST_INSTRUCTIONS
    /\ result.arm = "Err"
    /\ program_counter \in executed

\* the single-flip variants of the original program that halt cleanly
CleanRepairs == { i \in FlippableIndices(program) : HaltsCleanly(FlipAt(program, i)) }

(* C2: whenever the repair search returns a value, it is the final
   accumulator of the single-flip variant with the lowest flipped index
   among the variants that halt cleanly, and that variant is the candidate
   the search stopped on. *)
C2_ReturnsLowestCleanRepair ==
    at = "done" =>
        /\ CleanRepairs # {}
        /\ tried[Len(tried)] = Min(CleanRepairs)
        /\ stdout[Len(stdout)] = Run(FlipAt(program, Min(CleanRepairs))).val

(* C3: the search ends in "cannot find valid program" only when every
   flippable instruction of the original program, the last index included,
   was flipped and executed as a candidate and none halted cleanly; when
   some single-flip variant of a looping original halts cleanly the search
   does not abort. *)
C3_ExhaustedOnlyAfterAllTried ==
    panic = "cannot find valid program" =>
        /\ FlippableIndices(program) \subseteq Range(tried)
        /\ CleanRepairs = {}

(* C4: execute reports Ok only when the counter equals program.len()
   exactly; a counter moved past the length or below zero is never
   reported as a clean halt carrying an accumulator. *)
C4_OkOnlyAtLength ==
    (Returned /\ LastReturn.arm = "Ok") => program_counter = Len(exec_program)

(* C5: on the example program the search executes the flips of indices
   0, 2 and 4, which all loop, then the flip of index 7 (jmp -4 to nop -4),
   which halts, and reports 8 after the 5 of the original run; it never
   panics. *)
C5_ExampleRepair ==
    program = TEST_INSTRUCTIONS =>
        /\ panic = "none"
        /\ \E k \in 0..4 : tried = SubSeq(<< 0, 2, 4, 7 >>, 1, k)
        /\ (at = "main_113" /\ Len(tried) < 4) => new_result.arm = "Err"
        /\ (at = "main_113" /\ Len(tried) = 4) =>
              /\ new_result = Ok(8)
              /\ new_program = [TEST_INSTRUCTIONS EXCEPT ![8] = Nop(-4)]
        /\ at = "done" =>
              /\ tried = << 0, 2, 4, 7 >>
              /\ stdout = << 5, 8 >>

C5_Witness ==
    /\ program = TEST_INSTRUCTIONS
    /\ at = "done"
    /\ tried = << 0, 2, 4, 7 >>

(* C6: a program without Jump (only NoOp and Accumulate, the empty program
   included) never reports a loop: execute returns Ok carrying the sum of
   the operands of all its Accumulate instructions. *)
C6_NoJumpHaltsWithSum ==
    (\A j \in 1..Len(exec_program) : exec_program[j].op # "Jmp") =>
        /\ Returned => LastReturn = Ok(SumAcc(exec_program))
        /\ at = "exec" => ~AlreadyExecuted(executed, program_counter)

C6_Witness ==
    /\ Returned
    /\ Len(exec_program) = 2
    /\ \A j \in 1..Len(exec_program) : exec_program[j].op # "Jmp"
    /\ \E j \in 1..Len(exec_program) : exec_program[j].op = "Nop"
    /\ LastReturn.arm = "Ok"
    /\ LastReturn.val > 0

C6_WitnessEmpty ==
    /\ Returned
    /\ exec_program = << >>
    /\ LastReturn = Ok(0)

\* the flippable indices of p at or after start index k
FlippableFrom(p, k) == { i \in FlippableIndices(p) : i >= k }

(* C7: when a NoOp or Jump exists at an index >= k, flip_after(p, k)
   returns (f + 1, q) with f the smallest such index, q as long as p, q[f]
   the other kind with the same operand, and q equal to p everywhere else
   (so no Accumulate is changed). *)
C7_FlipsFirstFlippable ==
    (at = "flip_once" /\ FlippableFrom(program, flip_from) # {}) =>
        LET f == Min(FlippableFrom(program, flip_from))
        IN  /\ n = f + 1
            /\ Len(new_program) = Len(program)
            /\ At(new_program, f).op \in {"Nop", "Jmp"}
            /\ At(new_program, f).op # At(program, f).op
            /\ At(new_program, f).arg = At(program, f).arg
            /\ \A i \in 0..(Len(program) - 1) :
                  i # f => At(new_program, i) = At(program, i)

C7_Witness ==
    /\ at = "flip_once"
    /\ flip_from = 1
    /\ Len(program) = 2
    /\ At(program, 0).op = "Nop"
    /\ At(program, 1) = Jmp(2)
    /\ At(new_program, 1) = Nop(2)
    /\ n = 2

(* C8: when no NoOp or Jump exists at any index >= k (k >= length
   included), flip_after(p, k) returns (p.len(), q) with q equal to p. *)
C8_ExhaustedSentinel ==
    (at = "flip_once" /\ FlippableFrom(program, flip_from) = {}) =>
        /\ n = Len(program)
        /\ new_program = program

C8_Witness ==
    /\ at = "flip_once"
    /\ Len(program) = 2
    /\ At(program, 0).op = "Jmp"
    /\ At(program, 1).op = "Acc"
    /\ flip_from = 1
    /\ n = 2
    /\ new_program = program

C8_WitnessPastEnd ==
    /\ at = "flip_once"
    /\ flip_from > Len(program)
    /\ Len(program) > 0
    /\ n = Len(program)

(* C9: if flip_after(p, k) flipped index f and returned (f + 1, q), then
   flip_after(q, f) returns (f + 1, p): flipping again from the flipped
   index restores the whole program. *)
C9_FlipTwiceRestores ==
    at = "flip_twice" => flip_back = << n, program >>

C9_Witness ==
    /\ at = "flip_twice"
    /\ flip_from = 0
    /\ n = 2
    /\ At(program, 1) = Jmp(-1)
    /\ At(new_program, 1) = Nop(-1)
    /\ flip_back[2] = program

\* positions at which two programs of the same length differ
DiffIndices(p, q) == { i \in 0..(Len(p) - 1) : At(p, i) # At(q, i) }

\* the program handed to execute() by the search is a single flip of the original
CandidateIsSingleFlip ==
    caller \in {"112", "120"} =>
        /\ Len(exec_program) = Len(program)
        /\ Cardinality(DiffIndices(program, exec_program)) <= 1
        /\ \A i \in DiffIndices(program, exec_program) :
              /\ Flippable(At(program, i))
              /\ At(exec_program, i) = Flipped(At(program, i))

(* C10: throughout the repair search the original program is unchanged,
   and every candidate that is executed has the original's length and
   differs from it in at most one position, by a NoOp<->Jump flip with the
   operand kept: flips never accumulate. *)
C10_CandidatesAreSingleFlips ==
    [][program' = program /\ CandidateIsSingleFlip']_vars

C10_Witness ==
    /\ caller = "120"
    /\ at = "exec"
    /\ Len(tried) >= 3
    /\ DiffIndices(program, exec_program) = { tried[Len(tried)] }

(* C11: the outcome of execute(p) depends only on p: after any earlier
   calls on the same engine, whatever they returned and whatever counter
   and accumulator they left behind, execute(p) returns the arm and the
   accumulator that a fresh engine returns. *)
C11_OutcomeDependsOnlyOnProgram ==
    Returned =>
        /\ LastReturn.arm = Run(exec_program).arm
        /\ LastReturn.val = Run(exec_program).val

C11_Witness ==
    /\ at = "engine_done"
    /\ result = Ok(2)
    /\ Len(exec_program) = 2
    /\ new_result = Err(-1)
    /\ program_counter = 1

(* C12: the repair search executes its candidates in strictly ascending
   order of flipped index (so each flippable index at most once), every
   executed candidate is the original with exactly one instruction
   flipped, and every candidate before the latest one looped: none is
   executed after one that halted. *)
C12_CandidatesAscendingOnceEach ==
    /\ \A j, k \in 1..Len(tried) : j < k => tried[j] < tried[k]
    /\ \A j \in 1..Len(tried) : tried[j] \in FlippableIndices(program)
    /\ caller \in {"112", "120"} =>
          DiffIndices(program, exec_program) = { tried[Len(tried)] }
    /\ \A j \in 1..(Len(tried) - 1) :
          /\ Run(FlipAt(program, tried[j])).arm = "Err"
          /\ ~HaltsCleanly(FlipAt(program, tried[j]))
    /\ (at \in {"done", "panicked"} /\ tried # << >>) =>
          \/ new_result.arm = "Ok" /\ at = "done"
          \/ new_result.arm = "Err" /\ at = "panicked"

C12_Witness ==
    /\ at = "done"
    /\ Len(program) = 3
    /\ tried = << 0, 1 >>
    /\ HaltsCleanly(new_program)

(* C13: if execute on the original program returns Ok, the run aborts with
   the panic "returned OK" in the very next step, before any flip candidate
   is generated or executed, and nothing is printed. *)
C13_OriginalOkAbortsBeforeSearch ==
    [][ /\ result'.arm = "Ok" =>
             /\ at' \in {"main_105", "panicked"}
             /\ caller' = "104"
             /\ tried' = << >>
             /\ new_program' = << >>
             /\ new_result' = NoResult
             /\ stdout' = << >>
        /\ result.arm = "Ok" =>
             /\ at' = "panicked"
             /\ panic' = "returned OK" ]_vars

C13_Witness ==
    /\ at = "panicked"
    /\ panic = "returned OK"
    /\ result = Ok(3)
    /\ tried = << >>
    /\ \E j \in 1..Len(program) : program[j].op = "Jmp"

(* C14, as claimed: for a program with no NoOp and no Jump the repair
   search finds no flip candidate, its cursor reaches the program length
   and the run ends in the exhausted-search panic. *)
C14_NoFlippableEndsExhausted ==
    (FlippableIndices(program) = {} /\ at \in {"done", "panicked"}) =>
        /\ panic = "cannot find valid program"
        /\ n = Len(program)

(* C14, amended: for a program with no NoOp and no Jump the direct run
   returns Ok with the sum of its operands, so the run aborts with the
   panic "returned OK" before the repair search generates any candidate;
   the accumulator of the unflipped program is never reported as a repair
   result. *)
C14_NoFlippableAbortsBeforeSearch ==
    FlippableIndices(program) = {} =>
        /\ at \in {"main_104", "exec", "main_105", "panicked"}
        /\ tried = << >>
        /\ new_program = << >>
        /\ new_result = NoResult
        /\ stdout = << >>
        /\ at = "main_105" => result = Ok(SumAcc(program))
        /\ at = "panicked" => panic = "returned OK"

C14_Witness ==
    /\ program = << Acc(2) >>
    /\ at = "panicked"
    /\ panic = "returned OK"
    /\ result = Ok(2)

(* C15: for the one-instruction program jmp +0, execute reports Err(0)
   with index 0 revisited, and the repair search flips index 0 (the last
   index) to nop +0, executes that candidate and reports 0; the run does
   not panic. *)
C15_SingleJumpZero ==
    program = << Jmp(0) >> =>
        /\ panic = "none"
        /\ at = "main_105" =>
              /\ result = Err(0)
              /\ visited = << 0 >>
              /\ program_counter = 0
        /\ caller \in {"112", "120"} =>
              /\ tried = << 0 >>
              /\ exec_program = << Nop(0) >>
        /\ at = "main_113" => new_result = Ok(0)
        /\ at = "done" => stdout = << 0, 0 >>

C15_Witness ==
    /\ program = << Jmp(0) >>
    /\ at = "done"
    /\ new_program = << Nop(0) >>
    /\ stdout = << 0, 0 >>

(* ------------------ the run under a fair scheduler -------------------- *)
\* main is one sequential computation: whenever a step is possible, one
\* is eventually taken
SpecLive == Spec /\ WF_vars(Next)

\* the counter and visited set of the running execute() call are within
\* the bound that makes the loop finite
ExecuteBounded ==
    caller # "none" =>
        /\ executed \subseteq 0..(Len(exec_program) - 1)
        /\ Cardinality(executed) = Len(visited)
        /\ Len(visited) <= Len(exec_program)
        /\ NoDuplicates(visited)

(* C16: execute terminates on every program: every loop iteration either
   returns or adds an index not yet visited, so each index is executed at
   most once, at most program.len() instructions run in one call, and
   every call returns. *)
C16_ExecuteTerminates ==
    /\ []ExecuteBounded
    /\ [][ (at = "exec" /\ at' = "exec") =>
              /\ program_counter \notin executed
              /\ executed' = executed \cup { program_counter } ]_vars
    /\ (at = "exec") ~> (at # "exec")

C16_Witness ==
    /\ at = "main_105"
    /\ Len(program) = 3
    /\ Len(visited) = 3
    /\ result.arm = "Err"
    /\ \E j \in 1..3 : program[j].op = "Jmp" /\ program[j].arg < 0

(* C17: the repair search terminates on every looping original: the flip
   cursor strictly increases with every candidate executed by the loop and
   never exceeds the program length, so at most program.len() candidates
   are executed, and once started the search ends with a printed result or
   a panic. *)
C17_SearchTerminates ==
    /\ [](n <= Len(program) /\ Len(tried) <= Len(program))
    /\ [][ (at = "main_113" /\ at' = "exec") => n' > n ]_vars
    /\ (at = "main_111") ~> (at \in {"done", "panicked"})

C17_Witness ==
    /\ at = "panicked"
    /\ panic = "cannot find valid program"
    /\ tried = << 0, 1 >>
    /\ n = 3
    /\ FlippableIndices(program) = { 0, 1 }

(* ---------- execute and flip_after over all their arguments ----------- *)
\* the runs of main together with flip_after on every start index
LookupInit == Init \/ FlipInit

LookupNext == Next \/ FlipNext

SpecLookup == LookupInit /\ [][LookupNext]_vars

(* C18: every instruction lookup of execute and of flip_after is at an
   index in 0..len-1, whatever the jump operands and the start index are:
   the panic "instruction out of range" is never reached. *)
C18_LookupsInRange ==
    /\ panic # "instruction out of range"
    /\ executed \subseteq 0..(Len(exec_program) - 1)
    /\ (/\ at = "exec"
        /\ WhileCond(program_counter, exec_program)
        /\ ~AlreadyExecuted(executed, program_counter)) =>
          program_counter \in 0..(Len(exec_program) - 1)
    /\ at \in {"flip_once", "flip_twice"} => n \in 0..Len(program)

C18_Witness ==
    /\ at = "main_105"
    /\ result.arm = "Ok"
    /\ program_counter > Len(program)
    /\ visited = << 0, 2 >>

C18_WitnessFlip ==
    /\ at = "flip_once"
    /\ flip_from = Len(program)
    /\ Len(program) = 3
    /\ n = 3

\* sum of the Accumulate operands of p at the indices of the set S
RECURSIVE SumAccOver(_, _)
SumAccOver(p, S) ==
    IF S = {} THEN 0
    ELSE LET i == CHOOSE x \in S : TRUE
         IN  (IF At(p, i).op = "Acc" THEN At(p, i).arg ELSE 0)
             + SumAccOver(p, S \ { i })

(* C19: at every step of an execute run the accumulator equals the sum of
   the operands of the Accumulate instructions at the indices in the
   visited set (NoOp and Jump operands never contribute), and the value
   carried by either arm is that sum. *)
C19_AccumulatorIsSumOfVisited ==
    caller # "none" =>
        /\ accumulator = SumAccOver(exec_program, executed)
        /\ Returned => LastReturn.val = SumAccOver(exec_program, executed)

C19_Witness ==
    /\ Returned
    /\ LastReturn = Err(3)
    /\ Len(exec_program) = 3
    /\ \E i \in executed : At(exec_program, i).op = "Jmp" /\ At(exec_program, i).arg # 0

====
